---------------------------- MODULE Spec2Model ----------------------------
(***************************************************************************)
(* Model of app/routes/api.remove.ts: the Direct-Upload action (app proxy) *)
(* and the Catalog-Aware route (loader, action and the Index page state).  *)
(*                                                                         *)
(* One request is followed from its reception to its response.  Every      *)
(* await of a handler ends a step: authenticate, request.formData(),       *)
(* imageFile.arrayBuffer(), the import of the provider module and the      *)
(* provider call each resolve or reject in a step of their own.  One       *)
(* request is in flight at a time; requests share no state.                *)
(*                                                                         *)
(* Encoding of JavaScript values:                                          *)
(*   - a nullable value is a sequence of length <= 1: None is null or      *)
(*     undefined, Some(v) is the value v;                                  *)
(*   - a form field value is a text [kind, text] or a File                 *)
(*     [kind, name, type, bytes, readable]; size is Len(bytes), and        *)
(*     arrayBuffer() resolves exactly for a readable file;                 *)
(*   - base64 text, MIME types and header numbers are sequences of         *)
(*     one-character strings; messages and URLs are strings.               *)
(***************************************************************************)
EXTENDS Integers, Sequences, FiniteSets, TLC

VARIABLES
    apiKey,            \* process.env.REMOVE_BG_API_KEY
    pc,                \* position of the request in its handler
    handler,           \* "none", "direct" or "catalog"
    origin,            \* "none", "http" (any client) or "ui" (fetcher.submit)
    body,              \* the request body
    session,           \* what authenticate answered: "none" before it is asked
    calls,             \* the provider calls issued for this request
    outcome,           \* how the provider call ended
    response,          \* the value the handler returned
    fault,             \* the await that rejected, other than the provider call
    selectedFile,      \* Index: useState<File | null>
    selectedImageUrl,  \* Index: useState<string | null>
    previewUrl,        \* Index: useState<string | null>
    isDragging         \* Index: useState(false)

reqVars == <<pc, handler, origin, body, session, calls, outcome, response, fault>>
uiVars == <<selectedFile, selectedImageUrl, previewUrl, isDragging>>
vars == <<apiKey, pc, handler, origin, body, session, calls, outcome, response,
          fault, selectedFile, selectedImageUrl, previewUrl, isDragging>>

-----------------------------------------------------------------------------
(* Bounds *)

MaxFileLen == 3
MaxResultLen == 3

-----------------------------------------------------------------------------
(* Values *)

None == <<>>
Some(v) == <<v>>

\* JavaScript truthiness of a nullable string: null, undefined and "" are falsy.
Truthy(s) == s # None /\ s[1] # ""

\* A form field value that is a string (a part without filename).
Text(s) == [kind |-> "text", text |-> s]

IsFile(field) == field # None /\ field[1].kind = "file"

\* JavaScript truthiness of formData.get(..): null and "" are falsy, a
\* non-empty string and a File are truthy.
FieldTruthy(field) ==
    /\ field # None
    /\ field[1].kind = "text" => field[1].text # ""

ByteValues == {77, 255}

RECURSIVE ByteSeqs(_)
ByteSeqs(n) ==
    IF n = 0 THEN {<<>>}
    ELSE LET shorter == ByteSeqs(n - 1)
         IN  shorter \cup {Append(s, b) : s \in {t \in shorter : Len(t) = n - 1},
                                          b \in ByteValues}

\* file.size
FileSize(file) == Len(file.bytes)

\* imageFile.size === 0: false for a string, whose size is undefined.
SizeIsZero(field) == IsFile(field) /\ FileSize(field[1]) = 0

\* imageFile.size > 0: false for a string, whose size is undefined.
SizeIsPositive(field) == IsFile(field) /\ FileSize(field[1]) > 0

\* text.startsWith(prefix)
StartsWith(text, prefix) ==
    /\ Len(text) >= Len(prefix)
    /\ SubSeq(text, 1, Len(prefix)) = prefix

-----------------------------------------------------------------------------
(* Buffer.toString("base64"), Buffer.from(text, "base64"), Number.toString *)

Base64Alphabet ==
    <<"A","B","C","D","E","F","G","H","I","J","K","L","M","N","O","P",
      "Q","R","S","T","U","V","W","X","Y","Z","a","b","c","d","e","f",
      "g","h","i","j","k","l","m","n","o","p","q","r","s","t","u","v",
      "w","x","y","z","0","1","2","3","4","5","6","7","8","9","+","/">>

Base64Char(sextet) == Base64Alphabet[sextet + 1]

Base64Sextet(char) == (CHOOSE i \in 1..64 : Base64Alphabet[i] = char) - 1

\* buffer.toString("base64"): three bytes make four characters; a tail of one
\* or two bytes is padded with "=".
RECURSIVE Base64Encode(_)
Base64Encode(bytes) ==
    IF Len(bytes) = 0 THEN <<>>
    ELSE IF Len(bytes) = 1 THEN
        << Base64Char(bytes[1] \div 4),
           Base64Char((bytes[1] % 4) * 16),
           "=", "=" >>
    ELSE IF Len(bytes) = 2 THEN
        << Base64Char(bytes[1] \div 4),
           Base64Char((bytes[1] % 4) * 16 + bytes[2] \div 16),
           Base64Char((bytes[2] % 16) * 4),
           "=" >>
    ELSE
        << Base64Char(bytes[1] \div 4),
           Base64Char((bytes[1] % 4) * 16 + bytes[2] \div 16),
           Base64Char((bytes[2] % 16) * 4 + bytes[3] \div 64),
           Base64Char(bytes[3] % 64) >>
        \o Base64Encode(SubSeq(bytes, 4, Len(bytes)))

\* The characters of the text before its first "=".
RECURSIVE Base64Payload(_)
Base64Payload(text) ==
    IF Len(text) = 0 \/ text[1] = "=" THEN <<>>
    ELSE <<text[1]>> \o Base64Payload(Tail(text))

RECURSIVE Base64DecodeSextets(_)
Base64DecodeSextets(sextets) ==
    IF Len(sextets) < 2 THEN <<>>
    ELSE IF Len(sextets) = 2 THEN
        << sextets[1] * 4 + sextets[2] \div 16 >>
    ELSE IF Len(sextets) = 3 THEN
        << sextets[1] * 4 + sextets[2] \div 16,
           (sextets[2] % 16) * 16 + sextets[3] \div 4 >>
    ELSE
        << sextets[1] * 4 + sextets[2] \div 16,
           (sextets[2] % 16) * 16 + sextets[3] \div 4,
           (sextets[3] % 4) * 64 + sextets[4] >>
        \o Base64DecodeSextets(SubSeq(sextets, 5, Len(sextets)))

\* Buffer.from(text, "base64"): decoding stops at the padding.
Base64Decode(text) ==
    LET payload == Base64Payload(text)
    IN  Base64DecodeSextets([i \in 1..Len(payload) |-> Base64Sextet(payload[i])])

Digits == <<"0","1","2","3","4","5","6","7","8","9">>

\* n.toString() of a non-negative integer.
RECURSIVE NumberToString(_)
NumberToString(n) ==
    IF n < 10 THEN <<Digits[n + 1]>>
    ELSE NumberToString(n \div 10) \o <<Digits[(n % 10) + 1]>>

-----------------------------------------------------------------------------
(* Inputs *)

ImagePng == <<"i","m","a","g","e","/","p","n","g">>
ImageGif == <<"i","m","a","g","e","/","g","i","f">>
TextPlain == <<"t","e","x","t","/","p","l","a","i","n">>

FileNames == {"", "cat.png"}

\* The files a client can put in a form: files of every content up to
\* MaxFileLen bytes, and files whose bytes cannot be read.
Files ==
    [kind : {"file"}, name : FileNames, type : {ImagePng},
     bytes : ByteSeqs(MaxFileLen), readable : {TRUE}]
    \cup
    [kind : {"file"}, name : FileNames, type : {ImagePng},
     bytes : {<<77, 255>>}, readable : {FALSE}]

\* formData.get("image"): absent, a string or a File.
ImageFields ==
    {None, Some(Text("")), Some(Text("x"))} \cup {Some(f) : f \in Files}

\* formData.get("imageUrl"): absent, a string or a File.
ImageUrlFields ==
    { None, Some(Text("")), Some(Text("https://store/img.jpg")),
      Some([kind |-> "file", name |-> "url.bin", type |-> ImagePng,
            bytes |-> <<77>>, readable |-> TRUE]) }

\* A request body: multipart form data with optional `image` and `imageUrl`
\* fields, or a body request.formData() cannot parse.
Unparseable == [parseable |-> FALSE, image |-> None, imageUrl |-> None]

Forms == [parseable : {TRUE}, image : ImageFields, imageUrl : ImageUrlFields]

Bodies == Forms \cup {Unparseable}

ApiKeys == {None, Some(""), Some("rbg-key")}

\* What the provider's promise resolves with: result.base64img.
EncodedResults == {Base64Encode(b) : b \in ByteSeqs(MaxResultLen)}

\* What a promise rejects with: an Error, or another value.
ThrownValues ==
    { [isError |-> TRUE, message |-> "read failed"],
      [isError |-> FALSE, message |-> "rate limit"] }

\* authenticate.public.appProxy(request): a context with a session, a context
\* without one, or a rejection.
AppProxyAnswers == {"session", "nosession", "rejects"}

\* authenticate.admin(request): resolves for an authenticated request (the
\* value is not used) or rejects.
AdminAnswers == {"resolves", "rejects"}

-----------------------------------------------------------------------------
(* Responses *)

\* new Response(text, { status })
TextResponse(text, status) ==
    [kind |-> "text", status |-> status,
     contentType |-> Some("text/plain;charset=UTF-8"), contentLength |-> None,
     body |-> text]

\* Response.json(data, { status })
JsonResponse(data, status) ==
    [kind |-> "json", status |-> status,
     contentType |-> Some("application/json"), contentLength |-> None,
     body |-> data]

\* new Response(buffer, { headers }) with the two headers the handler sets.
BinaryResponse(buffer, contentType, contentLength) ==
    [kind |-> "binary", status |-> 200,
     contentType |-> Some(contentType), contentLength |-> Some(contentLength),
     body |-> buffer]

\* A plain object returned from the action: the framework sends it with 200.
DataResponse(data) ==
    [kind |-> "data", status |-> 200,
     contentType |-> None, contentLength |-> None,
     body |-> data]

\* The arguments of one provider call.
Base64Request(base64img, key) ==
    [variant |-> "base64", base64img |-> base64img, url |-> None,
     apiKey |-> key, size |-> "regular", type |-> "auto"]

\* url is the imageUrl field as it is: null, a string or a File.
UrlRequest(url, key) ==
    [variant |-> "url", base64img |-> <<>>, url |-> url,
     apiKey |-> key, size |-> "regular", type |-> "auto"]

Resolved(base64img) == [ok |-> TRUE, base64img |-> base64img, thrown |-> None]
Rejected(thrown) == [ok |-> FALSE, base64img |-> <<>>, thrown |-> Some(thrown)]

-----------------------------------------------------------------------------
(* Initial state *)

Init ==
    /\ apiKey \in ApiKeys
    /\ pc = "idle"
    /\ handler = "none"
    /\ origin = "none"
    /\ body = Unparseable
    /\ session = "none"
    /\ calls = <<>>
    /\ outcome = None
    /\ response = None
    /\ fault = "none"
    /\ selectedFile = None
    /\ selectedImageUrl = None
    /\ previewUrl = None
    /\ isDragging = FALSE

\* A request arrives at one of the two actions from any HTTP client.
Receive(h, b) ==
    /\ pc = "idle"
    /\ pc' = "Received"
    /\ handler' = h
    /\ origin' = "http"
    /\ body' = b
    /\ UNCHANGED <<apiKey, session, calls, outcome, response, fault>>
    /\ UNCHANGED uiVars

\* The rejection of an await outside the try block leaves the handler.
Escapes(step) ==
    /\ pc' = "Faulted"
    /\ fault' = step
    /\ UNCHANGED <<calls, outcome, response>>

\* The rejection of an await inside the try block: the catch block returns `r`.
Catches(step, r) ==
    /\ pc' = "Failed"
    /\ fault' = step
    /\ response' = Some(r)
    /\ UNCHANGED <<calls, outcome>>

\* The handler returns `r`.
Returns(r, state) ==
    /\ pc' = state
    /\ response' = Some(r)
    /\ UNCHANGED <<calls, fault>>

-----------------------------------------------------------------------------
(* Direct-Upload action *)

\* const { session } = await authenticate.public.appProxy(request);
\* if (!session) return new Response("Unauthorized", { status: 401 });
DirectAuthenticate(answer) ==
    /\ pc = "Received" /\ handler = "direct"
    /\ session' = answer
    /\ IF answer = "rejects" THEN Escapes("authenticate")
       ELSE IF answer = "nosession" THEN
            /\ Returns(TextResponse("Unauthorized", 401), "Failed")
            /\ UNCHANGED outcome
       ELSE /\ pc' = "Authenticated"
            /\ UNCHANGED <<calls, outcome, response, fault>>
    /\ UNCHANGED <<apiKey, handler, origin, body>>
    /\ UNCHANGED uiVars

\* await request.formData() answers; formData.get("image"); the !imageFile
\* check; imageFile.arrayBuffer() is called: a string has no such method and
\* the TypeError leaves the handler, a File starts reading.
DirectReadForm ==
    /\ pc = "Authenticated" /\ handler = "direct"
    /\ IF ~body.parseable THEN Escapes("formData")
       ELSE IF ~FieldTruthy(body.image) THEN
            /\ Returns(JsonResponse([error |-> "No image provided"], 400), "Failed")
            /\ UNCHANGED outcome
       ELSE IF ~IsFile(body.image) THEN Escapes("arrayBuffer")
       ELSE /\ pc' = "BufferingImage"
            /\ UNCHANGED <<calls, outcome, response, fault>>
    /\ UNCHANGED <<apiKey, handler, origin, body, session>>
    /\ UNCHANGED uiVars

\* const apiKey = process.env.REMOVE_BG_API_KEY; if (!apiKey) return 500;
\* otherwise the import of the provider module starts.
DirectCheckConfig ==
    IF ~Truthy(apiKey) THEN
        /\ Returns(JsonResponse(
              [error |-> "Background removal service not configured"], 500),
              "Failed")
        /\ UNCHANGED outcome
    ELSE /\ pc' = "Validated"
         /\ UNCHANGED <<calls, outcome, response, fault>>

\* await imageFile.arrayBuffer() answers: a rejection leaves the handler (it
\* is outside the try block); otherwise the try block starts with the API key
\* check.
DirectReadBytes ==
    /\ pc = "BufferingImage" /\ handler = "direct"
    /\ IF ~body.image[1].readable THEN Escapes("arrayBuffer")
       ELSE DirectCheckConfig
    /\ UNCHANGED <<apiKey, handler, origin, body, session>>
    /\ UNCHANGED uiVars

\* base64img = buffer.toString('base64'); removeBackgroundFromImageBase64({..})
DirectGatewayRequest(imageFile, key) ==
    Base64Request(Base64Encode(imageFile.bytes), key)

\* await import('remove.bg') resolves and the provider is called.
DirectCallProvider ==
    /\ pc = "Validated" /\ handler = "direct"
    /\ calls' = Append(calls, DirectGatewayRequest(body.image[1], apiKey[1]))
    /\ pc' = "CallingProvider"
    /\ UNCHANGED <<apiKey, handler, origin, body, session, outcome, response, fault>>
    /\ UNCHANGED uiVars

\* Faulty variant: Content-Length is the length of the text, not of the decoded bytes.
DirectSuccessResponseTextLength(base64img) ==
    BinaryResponse(Base64Decode(base64img), "image/png",
                   NumberToString(Len(base64img)))

\* processedImageBuffer = Buffer.from(result.base64img, 'base64') returned with
\* Content-Type image/png and Content-Length processedImageBuffer.length.
DirectSuccessResponse(base64img) ==
    LET processedImageBuffer == Base64Decode(base64img)
    IN  BinaryResponse(processedImageBuffer, "image/png",
                       NumberToString(Len(processedImageBuffer)))

DirectProviderResolves(base64img) ==
    /\ pc = "CallingProvider" /\ handler = "direct"
    /\ outcome' = Some(Resolved(base64img))
    /\ Returns(DirectSuccessResponse(base64img), "Succeeded")
    /\ UNCHANGED <<apiKey, handler, origin, body, session>>
    /\ UNCHANGED uiVars

\* catch (error) { return Response.json({ error: "Failed to process image" }, 500) }
DirectErrorResponse(thrown) ==
    JsonResponse([error |-> "Failed to process image"], 500)

\* await import('remove.bg') rejects inside the try block.
DirectImportRejects(thrown) ==
    /\ pc = "Validated" /\ handler = "direct"
    /\ Catches("import", DirectErrorResponse(thrown))
    /\ UNCHANGED <<apiKey, handler, origin, body, session>>
    /\ UNCHANGED uiVars

\* Faulty variant: the catch block tries the provider a second time before giving up.
DirectProviderRejectsRetrying(thrown) ==
    /\ pc = "CallingProvider" /\ handler = "direct"
    /\ IF Len(calls) < 2
       THEN /\ calls' = Append(calls, calls[1])
            /\ UNCHANGED <<pc, outcome, response, fault>>
       ELSE /\ outcome' = Some(Rejected(thrown))
            /\ Returns(DirectErrorResponse(thrown), "Failed")
    /\ UNCHANGED <<apiKey, handler, origin, body, session>>
    /\ UNCHANGED uiVars

DirectProviderRejects(thrown) ==
    /\ pc = "CallingProvider" /\ handler = "direct"
    /\ outcome' = Some(Rejected(thrown))
    /\ Returns(DirectErrorResponse(thrown), "Failed")
    /\ UNCHANGED <<apiKey, handler, origin, body, session>>
    /\ UNCHANGED uiVars

-----------------------------------------------------------------------------
(* Catalog-Aware route: loader and action *)

\* The product edges the admin GraphQL query answers with.
CatalogData ==
    << [id |-> "gid://1", title |-> "Mug",
        images |-> << [url |-> "https://store/mug.jpg", altText |-> Some("A mug")] >>],
       [id |-> "gid://2", title |-> "Gift card", images |-> << >>],
       [id |-> "gid://3", title |-> "Shirt",
        images |-> << [url |-> "https://store/shirt.jpg", altText |-> None] >>] >>

\* rawProducts.map(...).filter(p => p.imageUrl !== null)
loader(rawProducts) ==
    LET imageUrlOf(node) ==
            IF Len(node.images) > 0 /\ node.images[1].url # ""
            THEN Some(node.images[1].url) ELSE None
        imageAltOf(node) ==
            IF Len(node.images) > 0 /\ Truthy(node.images[1].altText)
            THEN node.images[1].altText[1] ELSE node.title
        mapped == [i \in 1..Len(rawProducts) |->
                     [id |-> rawProducts[i].id,
                      title |-> rawProducts[i].title,
                      imageUrl |-> imageUrlOf(rawProducts[i]),
                      imageAlt |-> imageAltOf(rawProducts[i])]]
        hasImage(p) == p.imageUrl # None
        kept == SelectSeq(mapped, hasImage)
    IN  [i \in 1..Len(kept) |->
            [id |-> kept[i].id, title |-> kept[i].title,
             imageUrl |-> kept[i].imageUrl[1], imageAlt |-> kept[i].imageAlt]]

products == loader(CatalogData)

\* await authenticate.admin(request);
CatalogAuthenticate(answer) ==
    /\ pc = "Received" /\ handler = "catalog"
    /\ session' = answer
    /\ IF answer = "rejects" THEN Escapes("authenticate")
       ELSE /\ pc' = "Authenticated"
            /\ UNCHANGED <<calls, outcome, response, fault>>
    /\ UNCHANGED <<apiKey, handler, origin, body>>
    /\ UNCHANGED uiVars

\* (!imageFile || imageFile.size === 0) && !imageUrl
NoImageProvided(imageFile, imageUrl) ==
    /\ ~FieldTruthy(imageFile) \/ SizeIsZero(imageFile)
    /\ ~FieldTruthy(imageUrl)

\* Faulty variant: the key is compared with undefined, an empty key passes.
CatalogCheckConfigUndefinedOnly ==
    IF apiKey = None THEN
        /\ Returns(JsonResponse(
              [error |-> "Background removal service not configured (missing REMOVE_BG_API_KEY)."],
              500), "Failed")
        /\ UNCHANGED outcome
    ELSE /\ pc' = "Validated"
         /\ UNCHANGED <<calls, outcome, response, fault>>

\* const apiKey = process.env.REMOVE_BG_API_KEY; if (!apiKey) return 500;
\* otherwise the import of the provider module starts.
CatalogCheckConfig ==
    IF ~Truthy(apiKey) THEN
        /\ Returns(JsonResponse(
              [error |-> "Background removal service not configured (missing REMOVE_BG_API_KEY)."],
              500), "Failed")
        /\ UNCHANGED outcome
    ELSE /\ pc' = "Validated"
         /\ UNCHANGED <<calls, outcome, response, fault>>

\* await request.formData() answers; the two formData.get; the "No image
\* provided" check; the try block starts with the API key check.
CatalogReadForm ==
    /\ pc = "Authenticated" /\ handler = "catalog"
    /\ IF ~body.parseable THEN Escapes("formData")
       ELSE IF NoImageProvided(body.image, body.imageUrl) THEN
            /\ Returns(JsonResponse([error |-> "No image provided"], 400), "Failed")
            /\ UNCHANGED outcome
       ELSE CatalogCheckConfig
    /\ UNCHANGED <<apiKey, handler, origin, body, session>>
    /\ UNCHANGED uiVars

\* let base64img = ""; if (imageFile && imageFile.size > 0) base64img = ...
CatalogBase64img(imageFile) ==
    IF SizeIsPositive(imageFile)
    THEN Base64Encode(imageFile[1].bytes)
    ELSE <<>>

\* Faulty variant: the URL is preferred to the file.
CatalogGatewayRequestUrlFirst(imageFile, imageUrl, key) ==
    IF FieldTruthy(imageUrl)
    THEN UrlRequest(imageUrl, key)
    ELSE Base64Request(CatalogBase64img(imageFile), key)

\* base64img ? removeBackgroundFromImageBase64({..}) : removeBackgroundFromImageUrl({..})
CatalogGatewayRequest(imageFile, imageUrl, key) ==
    LET base64img == CatalogBase64img(imageFile)
    IN  IF Len(base64img) > 0
        THEN Base64Request(base64img, key)
        ELSE UrlRequest(imageUrl, key)

\* await import("remove.bg") resolves: with a file of positive size
\* imageFile.arrayBuffer() is called, otherwise base64img stays "" and the
\* provider is called.
CatalogImportResolves ==
    /\ pc = "Validated" /\ handler = "catalog"
    /\ IF SizeIsPositive(body.image)
       THEN /\ pc' = "EncodingImage"
            /\ UNCHANGED calls
       ELSE /\ calls' = Append(calls,
                   CatalogGatewayRequest(body.image, body.imageUrl, apiKey[1]))
            /\ pc' = "CallingProvider"
    /\ UNCHANGED <<apiKey, handler, origin, body, session, outcome, response, fault>>
    /\ UNCHANGED uiVars

\* await imageFile.arrayBuffer() resolves and the provider is called.
CatalogCallProvider ==
    /\ pc = "EncodingImage" /\ handler = "catalog"
    /\ body.image[1].readable
    /\ calls' = Append(calls, CatalogGatewayRequest(body.image, body.imageUrl, apiKey[1]))
    /\ pc' = "CallingProvider"
    /\ UNCHANGED <<apiKey, handler, origin, body, session, outcome, response, fault>>
    /\ UNCHANGED uiVars

\* imageFile && imageFile.name ? imageFile.name
\*   : (imageUrl ? "Store Product Image" : "Processed Image")
OriginalName(imageFile, imageUrl) ==
    IF IsFile(imageFile) /\ imageFile[1].name # "" THEN imageFile[1].name
    ELSE IF FieldTruthy(imageUrl) THEN "Store Product Image"
    ELSE "Processed Image"

CatalogSuccessResponse(base64img, imageFile, imageUrl) ==
    DataResponse([success |-> TRUE,
                  processedImageBase64 |-> base64img,
                  originalName |-> OriginalName(imageFile, imageUrl)])

CatalogProviderResolves(base64img) ==
    /\ pc = "CallingProvider" /\ handler = "catalog"
    /\ outcome' = Some(Resolved(base64img))
    /\ Returns(CatalogSuccessResponse(base64img, body.image, body.imageUrl), "Succeeded")
    /\ UNCHANGED <<apiKey, handler, origin, body, session>>
    /\ UNCHANGED uiVars

\* errorMessage = error instanceof Error ? error.message : "Unknown error"
CatalogErrorResponse(thrown) ==
    LET errorMessage == IF thrown.isError THEN thrown.message ELSE "Unknown error"
    IN  JsonResponse([error |-> "Failed to process image: " \o errorMessage], 500)

\* await import("remove.bg") rejects inside the try block.
CatalogImportRejects(thrown) ==
    /\ pc = "Validated" /\ handler = "catalog"
    /\ Catches("import", CatalogErrorResponse(thrown))
    /\ UNCHANGED <<apiKey, handler, origin, body, session>>
    /\ UNCHANGED uiVars

\* await imageFile.arrayBuffer() rejects inside the try block.
CatalogReadBytesRejects(thrown) ==
    /\ pc = "EncodingImage" /\ handler = "catalog"
    /\ ~body.image[1].readable
    /\ Catches("arrayBuffer", CatalogErrorResponse(thrown))
    /\ UNCHANGED <<apiKey, handler, origin, body, session>>
    /\ UNCHANGED uiVars

\* Faulty variant: no catch block, the provider's rejection leaves the handler.
CatalogProviderRejectsUncaught(thrown) ==
    /\ pc = "CallingProvider" /\ handler = "catalog"
    /\ outcome' = Some(Rejected(thrown))
    /\ pc' = "Faulted"
    /\ fault' = "provider"
    /\ UNCHANGED <<calls, response>>
    /\ UNCHANGED <<apiKey, handler, origin, body, session>>
    /\ UNCHANGED uiVars

CatalogProviderRejects(thrown) ==
    /\ pc = "CallingProvider" /\ handler = "catalog"
    /\ outcome' = Some(Rejected(thrown))
    /\ Returns(CatalogErrorResponse(thrown), "Failed")
    /\ UNCHANGED <<apiKey, handler, origin, body, session>>
    /\ UNCHANGED uiVars

\* The response has been sent: nothing of the request is kept.
Finish ==
    /\ pc \in {"Succeeded", "Failed", "Faulted"}
    /\ pc' = "idle"
    /\ handler' = "none"
    /\ origin' = "none"
    /\ body' = Unparseable
    /\ session' = "none"
    /\ calls' = <<>>
    /\ outcome' = None
    /\ response' = None
    /\ fault' = "none"
    /\ UNCHANGED apiKey
    /\ UNCHANGED uiVars

-----------------------------------------------------------------------------
(* Index page *)

\* The files the user can pick or drop.
UserFiles ==
    { [kind |-> "file", name |-> "cat.png", type |-> ImagePng,
       bytes |-> <<77, 255>>, readable |-> TRUE],
      [kind |-> "file", name |-> "anim.gif", type |-> ImageGif,
       bytes |-> <<255>>, readable |-> TRUE],
      [kind |-> "file", name |-> "notes.txt", type |-> TextPlain,
       bytes |-> <<77>>, readable |-> TRUE] }

\* droppedFile.type.startsWith("image/")
IsImageType(type) == StartsWith(type, <<"i","m","a","g","e","/">>)

\* The object URLs the browser can hand out.
ObjectUrls == {"blob:nodedata:1", "blob:nodedata:2"}

\* URL.createObjectURL(file): an opaque URL that depends on no property of
\* the file and differs from every URL handed out before; the only one the
\* page still holds is previewUrl.
CreateObjectURL(file) == {u \in ObjectUrls : previewUrl # Some(u)}

processFile(file) ==
    \E objectUrl \in CreateObjectURL(file) :
        /\ selectedImageUrl' = None
        /\ selectedFile' = Some(file)
        /\ previewUrl' = Some(objectUrl)

\* files is e.target.files: empty when the dialog was cancelled.
handleFileChange(files) ==
    /\ IF Len(files) > 0 THEN processFile(files[1])
       ELSE UNCHANGED <<selectedFile, selectedImageUrl, previewUrl>>
    /\ UNCHANGED isDragging
    /\ UNCHANGED apiKey
    /\ UNCHANGED reqVars

handleDragOver ==
    /\ isDragging' = TRUE
    /\ UNCHANGED <<selectedFile, selectedImageUrl, previewUrl, apiKey>>
    /\ UNCHANGED reqVars

handleDragLeave ==
    /\ isDragging' = FALSE
    /\ UNCHANGED <<selectedFile, selectedImageUrl, previewUrl, apiKey>>
    /\ UNCHANGED reqVars

\* files is e.dataTransfer.files.
handleDrop(files) ==
    /\ isDragging' = FALSE
    /\ IF Len(files) > 0 /\ IsImageType(files[1].type) THEN processFile(files[1])
       ELSE UNCHANGED <<selectedFile, selectedImageUrl, previewUrl>>
    /\ UNCHANGED apiKey
    /\ UNCHANGED reqVars

\* The FormData handleRemoveBg builds.
SubmittedForm ==
    [parseable |-> TRUE,
     image |-> selectedFile,
     imageUrl |-> IF selectedFile = None /\ Truthy(selectedImageUrl)
                  THEN Some(Text(selectedImageUrl[1])) ELSE None]

\* The button is disabled while the fetcher is busy; fetcher.submit posts the
\* form to the route's action.
handleRemoveBg ==
    /\ pc = "idle"
    /\ IF selectedFile = None /\ ~Truthy(selectedImageUrl) THEN UNCHANGED reqVars
       ELSE /\ pc' = "Received"
            /\ handler' = "catalog"
            /\ origin' = "ui"
            /\ body' = SubmittedForm
            /\ UNCHANGED <<session, calls, outcome, response, fault>>
    /\ UNCHANGED apiKey
    /\ UNCHANGED uiVars

clearSelection ==
    /\ selectedFile' = None
    /\ selectedImageUrl' = None
    /\ previewUrl' = None
    /\ UNCHANGED isDragging
    /\ UNCHANGED apiKey
    /\ UNCHANGED reqVars

\* Faulty variant: the selection is not cleared first, a chosen file stays selected.
selectStoreProductKeepsFile(url) ==
    /\ selectedImageUrl' = Some(url)
    /\ previewUrl' = Some(url)
    /\ UNCHANGED <<selectedFile, isDragging>>
    /\ UNCHANGED apiKey
    /\ UNCHANGED reqVars

\* clearSelection(); setSelectedImageUrl(url); setPreviewUrl(url);
selectStoreProduct(url) ==
    /\ selectedFile' = None
    /\ selectedImageUrl' = Some(url)
    /\ previewUrl' = Some(url)
    /\ UNCHANGED isDragging
    /\ UNCHANGED apiKey
    /\ UNCHANGED reqVars

-----------------------------------------------------------------------------
(* Specification *)

FileLists == {<<>>} \cup {<<f>> : f \in UserFiles}

Next ==
    \/ \E h \in {"direct", "catalog"}, b \in Bodies : Receive(h, b)
    \/ \E a \in AppProxyAnswers : DirectAuthenticate(a)
    \/ DirectReadForm
    \/ DirectReadBytes
    \/ DirectCallProvider
    \/ \E t \in ThrownValues : DirectImportRejects(t)
    \/ \E r \in EncodedResults : DirectProviderResolves(r)
    \/ \E t \in ThrownValues : DirectProviderRejects(t)
    \/ \E a \in AdminAnswers : CatalogAuthenticate(a)
    \/ CatalogReadForm
    \/ CatalogImportResolves
    \/ \E t \in ThrownValues : CatalogImportRejects(t)
    \/ CatalogCallProvider
    \/ \E t \in ThrownValues : CatalogReadBytesRejects(t)
    \/ \E r \in EncodedResults : CatalogProviderResolves(r)
    \/ \E t \in ThrownValues : CatalogProviderRejects(t)
    \/ Finish
    \/ \E files \in FileLists : handleFileChange(files)
    \/ handleDragOver
    \/ handleDragLeave
    \/ \E files \in FileLists : handleDrop(files)
    \/ handleRemoveBg
    \/ clearSelection
    \/ \E i \in 1..Len(products) : selectStoreProduct(products[i].imageUrl)

Spec == Init /\ [][Next]_vars

-----------------------------------------------------------------------------
(* Vocabulary of the properties *)

Terminal == pc \in {"Succeeded", "Failed", "Faulted"}

\* The authentication collaborator accepted the request.
SessionValid == session \in {"session", "resolves"}

\* The authentication collaborator signalled an unauthenticated request:
\* appProxy by a context without session, admin by rejecting.
SessionInvalid ==
    \/ handler = "direct" /\ session = "nosession"
    \/ handler = "catalog" /\ session = "rejects"

\* The form has been read and the input check of the handler made.
PastInputCheck == pc \notin {"idle", "Received", "Authenticated"}

\* The request has come to the credential check of its handler, which in
\* the Direct-Upload Handler follows the reading of the file.
PastConfigCheck == pc \notin {"idle", "Received", "Authenticated", "BufferingImage"}

\* A field that is absent or empty: no value, an empty text, a file of size 0.
AbsentOrEmpty(field) == ~FieldTruthy(field) \/ SizeIsZero(field)

\* No usable image source, in the words of the specification: image absent
\* or empty and, for the Catalog-Aware Handler, imageUrl absent or empty.
NoUsableSource ==
    /\ AbsentOrEmpty(body.image)
    /\ handler = "catalog" => AbsentOrEmpty(body.imageUrl)

\* A usable image source: a non-empty file whose bytes can be read or, for
\* the Catalog-Aware Handler, a non-empty URL text.
UsableSource ==
    \/ SizeIsPositive(body.image) /\ body.image[1].readable
    \/ /\ handler = "catalog"
       /\ body.imageUrl # None
       /\ body.imageUrl[1].kind = "text"
       /\ body.imageUrl[1].text # ""

ProviderFailed == outcome # None /\ ~outcome[1].ok

DigitValue(char) == (CHOOSE i \in 1..10 : Digits[i] = char) - 1

RECURSIVE ParseDecimal(_)
ParseDecimal(text) ==
    IF Len(text) = 0 THEN 0
    ELSE 10 * ParseDecimal(SubSeq(text, 1, Len(text) - 1)) + DigitValue(text[Len(text)])

-----------------------------------------------------------------------------
(* C1 *)

\* C1 as stated: whenever the session is invalid or absent, either handler
\* returns a 401 response and the provider is never called.
C1_Unauthorized401 ==
    (handler # "none" /\ SessionInvalid) =>
        /\ pc = "Failed"
        /\ response # None
        /\ response[1].status = 401
        /\ calls = <<>>

-----------------------------------------------------------------------------
(* C2 *)

\* C2 as stated: an authenticated request without a usable image source
\* (image absent or empty and, for the Catalog-Aware Handler, imageUrl absent
\* or empty) is answered 400 {error: "No image provided"} and the provider is
\* never called.
C2_NoImage400 ==
    (handler # "none" /\ SessionValid /\ body.parseable /\ NoUsableSource
        /\ PastInputCheck) =>
        /\ pc = "Failed"
        /\ response # None
        /\ response[1].kind = "json"
        /\ response[1].status = 400
        /\ response[1].body = [error |-> "No image provided"]
        /\ calls = <<>>

-----------------------------------------------------------------------------
(* C3 *)

\* C3 as stated: with a usable image source (a non-empty readable file or,
\* for Catalog-Aware, a non-empty URL) and an absent or empty API key, Direct-Upload
\* answers 500 "Background removal service not configured", Catalog-Aware
\* answers 500 "Background removal service not configured (missing API key)."
\* and the provider is never called.
C3_MisconfiguredAsStated ==
    (handler # "none" /\ SessionValid /\ body.parseable /\ UsableSource
        /\ ~Truthy(apiKey) /\ PastConfigCheck) =>
        /\ pc = "Failed"
        /\ response # None
        /\ response[1].kind = "json"
        /\ response[1].status = 500
        /\ response[1].body =
             [error |-> IF handler = "direct"
                        THEN "Background removal service not configured"
                        ELSE "Background removal service not configured (missing API key)."]
        /\ calls = <<>>

\* C3 amended: the same, the Catalog-Aware message being "Background removal
\* service not configured (missing REMOVE_BG_API_KEY)."; a request in this
\* case never gets past the credential check.
C3_Misconfigured ==
    (handler # "none" /\ SessionValid /\ body.parseable /\ UsableSource
        /\ ~Truthy(apiKey) /\ PastConfigCheck) =>
        /\ pc = "Failed"
        /\ response # None
        /\ response[1].kind = "json"
        /\ response[1].status = 500
        /\ response[1].body =
             [error |-> IF handler = "direct"
                        THEN "Background removal service not configured"
                        ELSE "Background removal service not configured (missing REMOVE_BG_API_KEY)."]
        /\ calls = <<>>

\* A Catalog-Aware request with a file is refused for an empty API key.
C3_Witness ==
    /\ handler = "catalog"
    /\ SessionValid
    /\ SizeIsPositive(body.image)
    /\ apiKey = Some("")
    /\ pc = "Failed"
    /\ response # None
    /\ response[1].status = 500

-----------------------------------------------------------------------------
(* C4 *)

\* C4: in the Catalog-Aware Handler, a request with a non-empty file and a
\* non-empty URL never calls the provider with the URL variant: whenever it
\* calls it, and it has once a readable file is past the reading of its
\* bytes, the call is the encoded-payload variant with the base64 of the
\* file's bytes.
C4_FilePrecedence ==
    (handler = "catalog" /\ SizeIsPositive(body.image) /\ FieldTruthy(body.imageUrl)) =>
        /\ \A i \in 1..Len(calls) :
              /\ calls[i].variant = "base64"
              /\ Base64Decode(calls[i].base64img) = body.image[1].bytes
              /\ calls[i].url = None
        /\ pc \in {"CallingProvider", "Succeeded"} => Len(calls) = 1

\* A Catalog-Aware request with a file and a URL text has called the provider.
C4_Witness ==
    /\ handler = "catalog"
    /\ SizeIsPositive(body.image)
    /\ body.imageUrl = Some(Text("https://store/img.jpg"))
    /\ pc = "Succeeded"
    /\ Len(calls) = 1

-----------------------------------------------------------------------------
(* C5 *)

\* The messages of a provider failure: "Failed to process image", alone or
\* followed by ": " and the error's message.
FailedToProcessMessages ==
    {"Failed to process image"}
    \cup {"Failed to process image" \o (": " \o m) :
            m \in {t.message : t \in ThrownValues} \cup {"Unknown error"}}

\* C5: when the provider call raises, the handler returns one response, with
\* status 500 and a body {error: <string>} whose string starts with "Failed
\* to process image"; nothing leaves the handler as an exception and the body
\* holds no other field.
C5_ProviderErrorEnvelope ==
    ProviderFailed =>
        /\ pc = "Failed"
        /\ fault = "none"
        /\ response # None
        /\ response[1].kind = "json"
        /\ response[1].status = 500
        /\ DOMAIN response[1].body = {"error"}
        /\ response[1].body.error \in FailedToProcessMessages
        /\ handler = "direct" => response[1].body.error = "Failed to process image"

\* The Catalog-Aware Handler has answered a provider rejection that was not
\* an Error.
C5_Witness ==
    /\ handler = "catalog"
    /\ ProviderFailed
    /\ ~outcome[1].thrown[1].isError
    /\ pc = "Failed"
    /\ response # None

-----------------------------------------------------------------------------
(* C6 *)

\* C6 as stated: in a Catalog-Aware success envelope, originalName is the
\* file's name whenever the encoded-payload variant was called and "Store
\* Product Image" whenever the URL variant was called.
C6_OriginalNameFollowsVariant ==
    (handler = "catalog" /\ pc = "Succeeded") =>
        /\ response # None
        /\ Len(calls) = 1
        /\ calls[1].variant = "base64" =>
              /\ IsFile(body.image)
              /\ response[1].body.originalName = body.image[1].name
        /\ calls[1].variant = "url" =>
              response[1].body.originalName = "Store Product Image"

-----------------------------------------------------------------------------
(* C7 *)

\* The request passed authentication, input validation and the credential
\* check of its handler.
PassedAllChecks ==
    /\ SessionValid
    /\ body.parseable
    /\ IF handler = "direct" THEN FieldTruthy(body.image)
       ELSE ~NoImageProvided(body.image, body.imageUrl)
    /\ Truthy(apiKey)

\* The module import or the reading of the file's bytes was rejected and
\* caught after the checks.
PreparationFailed == pc = "Failed" /\ fault \in {"import", "arrayBuffer"}

\* C7 as stated: a request makes at most one provider call, and none before
\* its checks have passed; once they have, it makes exactly one: the URL
\* variant when only imageUrl is supplied, the encoded-payload variant when a
\* non-empty file is supplied; a rejected call ends the request without
\* another call.
C7_SingleProviderCall ==
    /\ Len(calls) <= 1
    /\ pc \in {"idle", "Received", "Authenticated", "BufferingImage", "Validated",
               "EncodingImage", "Faulted"} => calls = <<>>
    /\ (handler # "none" /\ PassedAllChecks
           /\ pc \in {"CallingProvider", "Succeeded", "Failed"}) =>
        /\ Len(calls) = 1
        /\ (body.image = None /\ FieldTruthy(body.imageUrl)) =>
              /\ calls[1].variant = "url"
              /\ calls[1].url = body.imageUrl
        /\ SizeIsPositive(body.image) =>
              /\ calls[1].variant = "base64"
              /\ Base64Decode(calls[1].base64img) = body.image[1].bytes
    /\ ProviderFailed => (pc = "Failed" /\ Len(calls) = 1)

\* C7 amended: a request makes at most one provider call, and none before
\* its checks have passed; once they have, either the import of the provider
\* module or, in the Catalog-Aware Handler, the reading of the file's bytes
\* is rejected, and the request ends with a 500 response without any call, or
\* the request makes exactly one call: the URL variant when only imageUrl is
\* supplied, the encoded-payload variant when a non-empty file is supplied; a
\* rejected call ends the request without another call.
C7_AtMostOneProviderCall ==
    /\ Len(calls) <= 1
    /\ pc \in {"idle", "Received", "Authenticated", "BufferingImage", "Validated",
               "EncodingImage", "Faulted"} => calls = <<>>
    /\ (handler # "none" /\ PassedAllChecks
           /\ pc \in {"CallingProvider", "Succeeded", "Failed"}) =>
        IF PreparationFailed
        THEN /\ calls = <<>>
             /\ outcome = None
             /\ response # None
             /\ response[1].status = 500
             /\ fault = "arrayBuffer" =>
                   (handler = "catalog" /\ SizeIsPositive(body.image))
        ELSE /\ Len(calls) = 1
             /\ (body.image = None /\ FieldTruthy(body.imageUrl)) =>
                   /\ calls[1].variant = "url"
                   /\ calls[1].url = body.imageUrl
             /\ SizeIsPositive(body.image) =>
                   /\ calls[1].variant = "base64"
                   /\ Base64Decode(calls[1].base64img) = body.image[1].bytes
    /\ ProviderFailed => (pc = "Failed" /\ Len(calls) = 1)

\* A Direct-Upload request has failed at its only provider call, a file and
\* a key having passed the checks.
C7_Witness ==
    /\ handler = "direct"
    /\ PassedAllChecks
    /\ SizeIsPositive(body.image)
    /\ ProviderFailed
    /\ pc = "Failed"
    /\ Len(calls) = 1

-----------------------------------------------------------------------------
(* C8 *)

\* C8: a successful Direct-Upload request with a non-empty file is answered
\* with a binary body of type image/png: the bytes the provider's text
\* decodes to, with a Content-Length that reads as the number of those bytes.
C8_BinaryBody ==
    (handler = "direct" /\ SizeIsPositive(body.image) /\ pc = "Succeeded") =>
        /\ response # None
        /\ outcome # None
        /\ response[1].kind = "binary"
        /\ response[1].status = 200
        /\ response[1].contentType = Some("image/png")
        /\ response[1].body = Base64Decode(outcome[1].base64img)
        /\ Base64Encode(response[1].body) = outcome[1].base64img
        /\ response[1].contentLength # None
        /\ ParseDecimal(response[1].contentLength[1]) = Len(response[1].body)

\* A Direct-Upload success whose body has two bytes, from a padded text.
C8_Witness ==
    /\ handler = "direct"
    /\ SizeIsPositive(body.image)
    /\ pc = "Succeeded"
    /\ response # None
    /\ Len(response[1].body) = 2
    /\ Len(outcome[1].base64img) = 4

-----------------------------------------------------------------------------
(* C9 *)

\* The responses of the taxonomy.
InTaxonomy(r) ==
    \/ r.kind = "text" /\ r.status = 401
    \/ r.kind = "json" /\ r.status = 400
    \/ r.kind = "json" /\ r.status = 500
    \/ r.kind \in {"binary", "data"} /\ r.status = 200

\* C9 as stated: a request goes through Received, Authenticated, Validated,
\* CallingProvider, then Succeeded or Failed, the provider being called only
\* after all the checks passed; it ends with exactly one response of the
\* taxonomy, no failure of any step leaves the handler as an unhandled fault,
\* and a success envelope needs a successful provider call.
C9_RequestLifecycle ==
    /\ pc \in {"Authenticated", "BufferingImage", "Validated", "EncodingImage",
               "CallingProvider", "Succeeded"} => SessionValid
    /\ pc \in {"BufferingImage", "Validated", "EncodingImage", "CallingProvider",
               "Succeeded"} =>
          /\ body.parseable
          /\ IF handler = "direct" THEN FieldTruthy(body.image)
             ELSE ~NoImageProvided(body.image, body.imageUrl)
    /\ pc \in {"Validated", "EncodingImage", "CallingProvider", "Succeeded"} =>
          Truthy(apiKey)
    /\ calls # <<>> => PassedAllChecks
    /\ pc = "Succeeded" => (outcome # None /\ outcome[1].ok)
    /\ (response # None /\ response[1].status = 200) => pc = "Succeeded"
    /\ pc # "Faulted"
    /\ Terminal => (response # None /\ InTaxonomy(response[1]))
    /\ ~Terminal => response = None

-----------------------------------------------------------------------------
(* C10 *)

\* C10: selectedFile and selectedImageUrl are never both set, previewUrl is
\* set exactly when one of them is, and a form submitted by handleRemoveBg
\* holds exactly one of the fields image and imageUrl.
C10_SelectionExclusive ==
    /\ ~(selectedFile # None /\ selectedImageUrl # None)
    /\ previewUrl # None <=> (selectedFile # None \/ selectedImageUrl # None)
    /\ origin = "ui" =>
          /\ handler = "catalog"
          /\ body.parseable
          /\ body.image # None <=> ~(body.imageUrl # None)

\* A product was selected after a file had been chosen and submitted.
C10_Witness ==
    /\ origin = "ui"
    /\ body.image # None
    /\ selectedFile = None
    /\ selectedImageUrl # None
    /\ previewUrl = selectedImageUrl

=============================================================================
